---------------------------- MODULE Spec2Model ----------------------------
(***************************************************************************)
(* Model of shareabouts-cli-tools: the Handlebars helpers and the report   *)
(* driver of summarize.py, and the bulk deletion of clear_dataset.py.      *)
(*                                                                         *)
(* Python values are tagged records [t, v]; strings are sequences of       *)
(* character codes, compared the way Python compares str (code point by    *)
(* code point, a proper prefix being smaller); dicts are functions whose   *)
(* DOMAIN is the set of keys present, so a missing key is a KeyError.      *)
(* Objects that the helpers may alias or copy live in a heap: a list is a  *)
(* sequence of heap addresses, 0 standing for None.                        *)
(***************************************************************************)
EXTENDS Integers, Sequences, FiniteSets, TLC

VARIABLES
    places,        \* summarize.py: dataset.places, place id -> Place
    heap,          \* summarize.py: the dicts reachable from the contexts
    helper,        \* the helper the template evaluator called last, with its arguments
    calls,         \* the invocations of options['fn'] / options['inverse'] it made
    raised,        \* the exception that left the helper, "" when it returned
    pc,            \* summarize.py main: the statement the driver is at
    config,        \* summarize.py main: the run config
    report,        \* summarize.py main: the report config
    events,        \* summarize.py main: the side effects so far, in order
    localtz,       \* summarize.py main: the timezone handed to convert_times
    doc,           \* summarize.py main: the rendered document
    exitCode,      \* summarize.py: the process exit status, -1 while running
    step,          \* clear_dataset.py: the progress counter
    status,        \* clear_dataset.py: place -> status of its response, 0 while pending
    errors,        \* clear_dataset.py: number of "Error deleting place" lines printed
    finished       \* clear_dataset.py: main has printed "Done!"

helperVars == <<places, heap, helper, calls, raised>>
driverVars == <<pc, config, report, events, localtz, doc, exitCode>>
clearVars == <<step, status, errors, finished>>
vars == <<places, heap, helper, calls, raised,
          pc, config, report, events, localtz, doc, exitCode,
          step, status, errors, finished>>

----------------------------------------------------------------------------
(* Bounds *)

\* longest context list handed to a helper
MaxLen == 2
\* largest daysago handed to created_within_days (the smallest is -2)
MaxDaysAgo == 10
\* number of places the bulk deletion is given
NumPlaces == 4

----------------------------------------------------------------------------
(* Python values *)

Min(S) == CHOOSE x \in S : \A y \in S : x <= y

NoneV == [t |-> "None", v |-> <<>>]
UNDEFINED == [t |-> "UNDEFINED", v |-> <<>>]
Str(s) == [t |-> "str", v |-> s]
Dict(d) == [t |-> "dict", v |-> d]
List(l) == [t |-> "list", v |-> l]

\* bool(x) of a list or None
Truthy(x) == IF x.t = "list" THEN Len(x.v) > 0 ELSE x.t \notin {"None"}

\* str < str
StrLt(s, t) ==
    LET n == IF Len(s) < Len(t) THEN Len(s) ELSE Len(t)
        diff == {i \in 1..n : s[i] # t[i]}
    IN  IF diff = {} THEN Len(s) < Len(t)
        ELSE s[Min(diff)] < t[Min(diff)]

StrLe(s, t) == s = t \/ StrLt(s, t)

\* '%0*d': n in decimal, zero-padded to w digits ('0' is code 48)
RECURSIVE Pad(_, _)
Pad(n, w) == IF w = 0 THEN <<>> ELSE Append(Pad(n \div 10, w - 1), 48 + (n % 10))

----------------------------------------------------------------------------
(* datetime.date *)

IsLeap(y) == y % 4 = 0 /\ (y % 100 # 0 \/ y % 400 = 0)

DaysInMonth(y, m) ==
    IF m = 2 THEN (IF IsLeap(y) THEN 29 ELSE 28)
    ELSE IF m \in {4, 6, 9, 11} THEN 30 ELSE 31

RECURSIVE DaysBeforeMonth(_, _)
DaysBeforeMonth(y, m) ==
    IF m = 1 THEN 0 ELSE DaysBeforeMonth(y, m - 1) + DaysInMonth(y, m - 1)

DaysBeforeYear(y) ==
    (y - 1) * 365 + ((y - 1) \div 4) - ((y - 1) \div 100) + ((y - 1) \div 400)

\* date.toordinal()
ToOrdinal(d) == DaysBeforeYear(d.year) + DaysBeforeMonth(d.year, d.month) + d.day

\* date.fromordinal(n)
FromOrdinal(n) ==
    LET n0 == n - 1
        n400 == n0 \div 146097
        r400 == n0 % 146097
        n100 == r400 \div 36524
        r100 == r400 % 36524
        n4 == r100 \div 1461
        r4 == r100 % 1461
        n1 == r4 \div 365
        r1 == r4 % 365
        year == n400 * 400 + 1 + n100 * 100 + n4 * 4 + n1
    IN  IF n1 = 4 \/ n100 = 4
        THEN [year |-> year - 1, month |-> 12, day |-> 31]
        ELSE LET month == Min({m \in 1..12 :
                               DaysBeforeMonth(year, m) + DaysInMonth(year, m) > r1})
             IN  [year |-> year, month |-> month,
                  day |-> r1 - DaysBeforeMonth(year, month) + 1]

\* date - timedelta(days=n)
DateMinusDays(d, n) == FromOrdinal(ToOrdinal(d) - n)

\* date.isoformat(): 'YYYY-MM-DD' ('-' is code 45)
IsoFormat(d) == Pad(d.year, 4) \o <<45>> \o Pad(d.month, 2) \o <<45>> \o Pad(d.day, 2)

\* s[:n]
Prefix(s, n) == IF Len(s) <= n THEN s ELSE SubSeq(s, 1, n)


\* str(n) for n >= 0
RECURSIVE Decimal(_)
Decimal(n) == IF n < 10 THEN <<48 + n>> ELSE Append(Decimal(n \div 10), 48 + (n % 10))

\* the digits of a non-empty all-digit string as a number
RECURSIVE DigitsValue(_)
DigitsValue(s) ==
    IF Len(s) = 0 THEN 0
    ELSE 10 * DigitsValue(SubSeq(s, 1, Len(s) - 1)) + (s[Len(s)] - 48)

IsDigits(s) == Len(s) > 0 /\ \A i \in 1..Len(s) : s[i] \in 48..57

Max(S) == CHOOSE x \in S : \A y \in S : x >= y

\* url.rsplit('/', 1)[-1]: what follows the last '/' (code 47), or all of url
RSplitLast(s) ==
    LET slashes == {i \in 1..Len(s) : s[i] = 47}
    IN  IF slashes = {} THEN s ELSE SubSeq(s, Max(slashes) + 1, Len(s))

----------------------------------------------------------------------------
(* The fetched data: the record store and the submissions *)

\* 'T' hh ':' mm ':' ss
TimeOfDay(h, m, s) == <<84>> \o Pad(h, 2) \o <<58>> \o Pad(m, 2) \o <<58>> \o Pad(s, 2)

Date(y, m, d) == [year |-> y, month |-> m, day |-> d]

\* 'http://h/places/<id>' shortened to 'h/p/<id>'
PlaceUrl(id) == <<104, 47, 112, 47>> \o Decimal(id)

\* identifiers a Place of the dataset may have
StoreIds == {1, 12}

\* a Place object of the record store
Place(id) ==
    [pid |-> id,
     props |-> [created_datetime |-> IsoFormat(Date(2024, 1, id)) \o TimeOfDay(9, 0, 0),
                location_type |-> IF id = 1 THEN "park" ELSE "school"]]

\* place.serialize(): the Place as a plain mapping
Serialize(p) == [id |-> p.pid, properties |-> p.props]

\* the submissions: created_datetime at the top level, under properties, or both
Addrs == {1, 2, 3}

Corpus ==
    1 :> [created_datetime |-> IsoFormat(Date(2024, 1, 3)),
          place |-> Str(PlaceUrl(1))]
 @@ 2 :> [properties |-> [created_datetime |-> IsoFormat(Date(2024, 1, 9)) \o TimeOfDay(12, 0, 0)],
          place |-> Str(PlaceUrl(12))]
 @@ 3 :> [created_datetime |-> IsoFormat(Date(2024, 1, 10)),
          properties |-> [created_datetime |-> IsoFormat(Date(2023, 12, 31)) \o TimeOfDay(23, 59, 59)],
          place |-> Str(PlaceUrl(2))]

\* sequences over S of length at most n
SeqsUpTo(S, n) == UNION {[1..k -> S] : k \in 0..n}

\* the lists of submissions a template may hand to a helper
RecordLists == {List(l) : l \in SeqsUpTo(Addrs, MaxLen)}

\* the same, with None entries (address 0)
NullableLists == {List(l) : l \in SeqsUpTo(Addrs \cup {0}, MaxLen)}

\* the begin and end strings a template may pass to created_between
BeginEnds ==
    {IsoFormat(Date(2024, 1, 3)),
     IsoFormat(Date(2024, 1, 9)) \o TimeOfDay(12, 0, 0),
     IsoFormat(Date(2024, 1, 10)),
     IsoFormat(Date(2024, 1, 11))}

\* the days on which a report may run
Todays == {Date(2024, 1, 10), Date(2024, 3, 1)}

DaysAgos == (-2)..MaxDaysAgo

\* the place URLs a template may pass to with_place
Urls == {PlaceUrl(id) : id \in {1, 2, 12}}


----------------------------------------------------------------------------
(* The Handlebars helpers.  A helper's result is what it did: the calls of *)
(* options['fn'] / options['inverse'] it made, the exception that left it  *)
(* ("" when it returned) and the heap it leaves.                           *)

Returned(h, c) == [heap |-> h, calls |-> c, raised |-> ""]
Raised(h, e) == [heap |-> h, calls |-> <<>>, raised |-> e]
Call(f, x) == [callable |-> f, arg |-> x]

\* place.serialize() without the test of place: a missing place raises
get_place_data_unguarded(url) ==
    IF url.t # "str" THEN [raised |-> "AttributeError", value |-> NoneV]
    ELSE LET segment == RSplitLast(url.v)
         IN  IF ~IsDigits(segment) THEN [raised |-> "ValueError", value |-> NoneV]
             ELSE LET place_id == DigitsValue(segment)
                  IN  IF place_id \in DOMAIN places
                      THEN [raised |-> "", value |-> Dict(Serialize(places[place_id]))]
                      ELSE [raised |-> "AttributeError", value |-> NoneV]

\* get_place_data_for_url(url): [raised, value]
get_place_data_for_url(url) ==
    IF url.t # "str" THEN [raised |-> "AttributeError", value |-> NoneV]
    ELSE LET segment == RSplitLast(url.v)
         IN  IF ~IsDigits(segment) THEN [raised |-> "ValueError", value |-> NoneV]
             ELSE LET place_id == DigitsValue(segment)
                  IN  [raised |-> "",
                       value |-> IF place_id \in DOMAIN places
                                 THEN Dict(Serialize(places[place_id]))
                                 ELSE NoneV]

\* _with_place(this, options, url)
with_place(h, this, url) ==
    LET r == get_place_data_for_url(url)
    IN  IF r.raised # "" THEN Raised(h, r.raised)
        ELSE Returned(h, <<Call("fn", r.value)>>)

\* get_created_date(d) of _created_between: [raised, value]
get_created_date(d) ==
    IF "created_datetime" \in DOMAIN d
    THEN [raised |-> "", value |-> d.created_datetime]
    ELSE IF "properties" \in DOMAIN d /\ "created_datetime" \in DOMAIN d.properties
         THEN [raised |-> "", value |-> d.properties.created_datetime]
         ELSE [raised |-> "KeyError", value |-> <<>>]

\* the exception get_created_date raises on the entry at address a, "" when none
EntryError(h, a) == IF a = 0 THEN "TypeError" ELSE get_created_date(h[a]).raised

\* a closed window: the entry created at end passes too
InWindowClosed(h, a, begin, end) ==
    LET c == get_created_date(h[a]).value
    IN  StrLe(begin, c) /\ StrLe(c, end)

\* begin <= get_created_date(d) < end
InWindow(h, a, begin, end) ==
    LET c == get_created_date(h[a]).value
    IN  StrLe(begin, c) /\ StrLt(c, end)

\* the else-branch run against an empty filtered list instead
InverseAsFnEmpty(h, this) == Returned(h, <<Call("fn", List(<<>>))>>)

\* return options['inverse'](this)
Inverse(h, this) == Returned(h, <<Call("inverse", this)>>)

\* _created_between(this, options, begin, end, context)
created_between(h, this, begin, end, context) ==
    LET ctx == IF context = UNDEFINED THEN this ELSE context
    IN  IF ~Truthy(ctx) THEN Inverse(h, this)
        ELSE LET bad == {i \in 1..Len(ctx.v) : EntryError(h, ctx.v[i]) # ""}
             IN  IF bad # {} THEN Raised(h, EntryError(h, ctx.v[Min(bad)]))
                 ELSE LET filtered_context ==
                              SelectSeq(ctx.v, LAMBDA a : InWindow(h, a, begin, end))
                      IN  IF Len(filtered_context) = 0
                          THEN Inverse(h, this)
                          ELSE Returned(h, <<Call("fn", List(filtered_context))>>)

\* begin = end + timedelta(days=daysago): the window lies after today
created_within_days_ahead(h, this, daysago, context, today) ==
    LET end == today
        begin == DateMinusDays(end, -daysago)
    IN  created_between(h, this, IsoFormat(begin), Prefix(IsoFormat(end), 10), context)

\* _created_within_days(this, options, daysago, context), run on the day today
created_within_days(h, this, daysago, context, today) ==
    LET end == today
        begin == DateMinusDays(end, daysago)
    IN  created_between(h, this, IsoFormat(begin), Prefix(IsoFormat(end), 10), context)

\* annotated_submission = submission: the same dict, not a copy
CopyAlias(h, a) == [heap |-> h, addr |-> a]

\* submission.copy(): a new dict with the same items
Copy(h, a) ==
    LET new == Max(DOMAIN h) + 1
    IN  [heap |-> h @@ (new :> h[a]), addr |-> new]

\* the loop of _annotate_with_places from entry i on, annotated_context being acc
RECURSIVE AnnotateFrom(_, _, _, _)
AnnotateFrom(h, list, i, acc) ==
    IF i > Len(list) THEN Returned(h, <<Call("fn", List(acc))>>)
    ELSE LET submission == list[i]
             copied == IF submission # 0 THEN Copy(h, submission)
                       ELSE [heap |-> h, addr |-> 0]
         IN  IF submission = 0 THEN Raised(copied.heap, "TypeError")
             ELSE IF "place" \notin DOMAIN h[submission] THEN Raised(copied.heap, "KeyError")
             ELSE LET r == get_place_data_for_url(h[submission].place)
                  IN  IF r.raised # "" THEN Raised(copied.heap, r.raised)
                      ELSE AnnotateFrom(
                               [copied.heap EXCEPT ![copied.addr] =
                                    [@ EXCEPT !.place = r.value]],
                               list, i + 1, Append(acc, copied.addr))

\* _annotate_with_places(this, options, context)
annotate_with_places(h, this, context) ==
    LET ctx == IF context = UNDEFINED THEN this ELSE context
    IN  IF ctx.t # "list" THEN Raised(h, "TypeError")
        ELSE AnnotateFrom(h, ctx.v, 1, <<>>)


----------------------------------------------------------------------------
(* The template evaluator calling the helpers *)

NoHelper ==
    [name |-> "none", this |-> NoneV, context |-> UNDEFINED, begin |-> <<>>,
     end |-> <<>>, daysago |-> 0, today |-> Date(1, 1, 1), url |-> <<>>]

\* the heap without the derived contexts of the block that has returned
Base(h) == [a \in Addrs |-> h[a]]

HelperInit ==
    /\ places \in {[id \in S |-> Place(id)] : S \in SUBSET StoreIds}
    /\ heap = Corpus
    /\ helper = NoHelper
    /\ calls = <<>>
    /\ raised = ""
    /\ pc = "idle" /\ config = <<>> /\ report = <<>> /\ events = <<>>
    /\ localtz = "" /\ doc = <<>> /\ exitCode = -1
    /\ step = 0 /\ status = <<>> /\ errors = 0 /\ finished = FALSE

Finish(r) ==
    /\ heap' = r.heap
    /\ calls' = r.calls
    /\ raised' = r.raised
    /\ UNCHANGED <<places, driverVars, clearVars>>

\* {{#with_place url}}
WithPlace ==
    /\ helper = NoHelper
    /\ \E this \in RecordLists, url \in Urls :
        /\ helper' = [NoHelper EXCEPT !.name = "with_place", !.this = this, !.url = url]
        /\ Finish(with_place(Base(heap), this, Str(url)))

\* {{#created_between begin end [context]}}
CreatedBetween ==
    /\ helper = NoHelper
    /\ \E this \in RecordLists, context \in RecordLists \cup {UNDEFINED, NoneV},
       begin \in BeginEnds, end \in BeginEnds :
        /\ helper' = [NoHelper EXCEPT !.name = "created_between", !.this = this,
                                      !.context = context, !.begin = begin, !.end = end]
        /\ Finish(created_between(Base(heap), this, begin, end, context))

\* {{#created_within_days daysago [context]}}
CreatedWithinDays ==
    /\ helper = NoHelper
    /\ \E this \in RecordLists, context \in RecordLists \cup {UNDEFINED, NoneV},
       daysago \in DaysAgos, today \in Todays :
        /\ helper' = [NoHelper EXCEPT !.name = "created_within_days", !.this = this,
                                      !.context = context, !.daysago = daysago,
                                      !.today = today]
        /\ Finish(created_within_days(Base(heap), this, daysago, context, today))

\* {{#annotate_with_places [context]}}
AnnotateWithPlaces ==
    /\ helper = NoHelper
    /\ \E this \in NullableLists, context \in NullableLists \cup {UNDEFINED, NoneV} :
        /\ helper' = [NoHelper EXCEPT !.name = "annotate_with_places", !.this = this,
                                      !.context = context]
        /\ Finish(annotate_with_places(Base(heap), this, context))


\* the block has run and the helper's result is back with the template evaluator
BlockReturns ==
    /\ helper # NoHelper
    /\ helper' = NoHelper
    /\ heap' = Base(heap)
    /\ calls' = <<>>
    /\ raised' = ""
    /\ UNCHANGED <<places, driverVars, clearVars>>

----------------------------------------------------------------------------
(* The report driver: main(config, report) of summarize.py *)

\* timezone names a configuration file may hold; the last is unknown to pytz
TzNames == {"", "UTC", "America/New_York", "Asia/Tokyo", "Mars/Olympus"}
KnownZones == {"UTC", "America/New_York", "Asia/Tokyo"}

\* a dict holding key k with value x when present, and nothing otherwise
Item(present, k, x) == IF present THEN k :> x ELSE [n \in {} |-> x]

EmailBlock == [sender |-> "a@x.org", recipient |-> "b@x.org", subject |-> "s", bcc |-> ""]

\* the run configurations: timezone, email and postmarkapp_token are optional
Configs ==
    {Item(TRUE, "host", "h") @@ Item(tz # "absent", "timezone", tz)
       @@ Item(e, "email", EmailBlock) @@ Item(k, "postmarkapp_token", "token") :
         tz \in TzNames \cup {"absent"}, e \in BOOLEAN, k \in BOOLEAN}

\* the report configurations: summary_template is required, timezone optional
Reports ==
    {Item(t # "absent", "summary_template", t) @@ Item(tz # "absent", "timezone", tz) :
         t \in {"absent", "", "report.html"}, tz \in TzNames \cup {"absent"}}

\* d.get(k), None and '' both read as the falsy ''
Get(d, k) == IF k \in DOMAIN d THEN d[k] ELSE ""

\* report.get('timezone') or config.get('timezone') or None
ResolveTzNameReportFirst(c, r) ==
    IF Get(r, "timezone") # "" THEN Get(r, "timezone")
    ELSE IF Get(c, "timezone") # "" THEN Get(c, "timezone")
    ELSE ""

\* config.get('timezone') or report.get('timezone') or None ('' stands for None)
ResolveTzName(c, r) ==
    IF Get(c, "timezone") # "" THEN Get(c, "timezone")
    ELSE IF Get(r, "timezone") # "" THEN Get(r, "timezone")
    ELSE ""

\* an unknown name quietly read as UTC
LookupTzLenient(tzname) ==
    IF tzname \in KnownZones THEN [raised |-> "", tz |-> tzname]
    ELSE [raised |-> "", tz |-> "UTC"]

\* pytz.timezone(tzname) if tzname else pytz.utc: [raised, tz]
LookupTz(tzname) ==
    IF tzname = "" THEN [raised |-> "", tz |-> "UTC"]
    ELSE IF tzname \in KnownZones THEN [raised |-> "", tz |-> tzname]
    ELSE [raised |-> "UnknownTimeZoneError", tz |-> ""]

\* str.strip(): whitespace is tab, newline, vertical tab, form feed, return, space
IsSpace(c) == c \in {9, 10, 11, 12, 13, 32}

Strip(s) ==
    LET keep == {i \in 1..Len(s) : ~IsSpace(s[i])}
    IN  IF keep = {} THEN <<>> ELSE SubSeq(s, Min(keep), Max(keep))

\* the documents a template may render to: '', ' \n', ' <p>3</p>\n'
Docs == {<<>>, <<32, 10>>, <<32, 60, 112, 62, 51, 60, 47, 112, 62, 10>>}

\* the statuses the email delivery service may answer with
PostStatuses == {200, 401, 422, 500}

DriverInit ==
    /\ pc = "assert_template"
    /\ config \in Configs
    /\ report \in Reports
    /\ events = <<>>
    /\ localtz = ""
    /\ doc = <<>>
    /\ exitCode = -1
    /\ places = <<>> /\ heap = Corpus /\ helper = NoHelper /\ calls = <<>> /\ raised = ""
    /\ step = 0 /\ status = <<>> /\ errors = 0 /\ finished = FALSE

\* an uncaught exception: the interpreter prints a traceback and exits with 1
Uncaught(e) ==
    /\ events' = Append(events, e)
    /\ exitCode' = 1
    /\ pc' = "done"

\* sys.exit(main(config, report) or 0)
Return(code) ==
    /\ exitCode' = code
    /\ pc' = "done"

\* assert template_filename, 'No template file specified'
AssertTemplate ==
    /\ pc = "assert_template"
    /\ IF Get(report, "summary_template") = ""
       THEN Uncaught("AssertionError")
       ELSE /\ pc' = "fetch"
            /\ UNCHANGED <<events, exitCode>>
    /\ UNCHANGED <<config, report, localtz, doc>>
    /\ UNCHANGED <<helperVars, clearVars>>

\* tool.get_places, tool.get_submissions, tool.api.account(...).dataset(...)
Fetch ==
    /\ pc = "fetch"
    /\ \E ok \in BOOLEAN :
        IF ok THEN /\ events' = Append(events, "fetch")
                   /\ pc' = "compile"
                   /\ UNCHANGED exitCode
        ELSE Uncaught("FetchError")
    /\ UNCHANGED <<config, report, localtz, doc>>
    /\ UNCHANGED <<helperVars, clearVars>>

\* open(report['summary_template']) and compiler.compile(template_source)
Compile ==
    /\ pc = "compile"
    /\ \E ok \in BOOLEAN :
        IF ok THEN /\ events' = Append(events, "compile")
                   /\ pc' = "timezone"
                   /\ UNCHANGED exitCode
        ELSE Uncaught("CompileError")
    /\ UNCHANGED <<config, report, localtz, doc>>
    /\ UNCHANGED <<helperVars, clearVars>>

\* tzname = ...; localtz = pytz.timezone(tzname) if tzname else pytz.utc
Timezone ==
    /\ pc = "timezone"
    /\ LET tz == LookupTz(ResolveTzName(config, report))
       IN  IF tz.raised # ""
           THEN /\ events' = Append(events, "diagnostic")
                /\ Return(1)
                /\ UNCHANGED localtz
           ELSE /\ localtz' = tz.tz
                /\ pc' = "convert_times"
                /\ UNCHANGED <<events, exitCode>>
    /\ UNCHANGED <<config, report, doc>>
    /\ UNCHANGED <<helperVars, clearVars>>

\* tool.convert_times(places | submissions | dataset, localtz)
ConvertTimes ==
    /\ pc = "convert_times"
    /\ events' = Append(events, "convert_times")
    /\ pc' = "render"
    /\ UNCHANGED <<config, report, localtz, doc, exitCode>>
    /\ UNCHANGED <<helperVars, clearVars>>

\* rendered_template = template({...}, helpers=helpers)
Render ==
    /\ pc = "render"
    /\ \/ \E d \in Docs :
            /\ doc' = d
            /\ events' = Append(events, "render")
            /\ pc' = "emit"
            /\ UNCHANGED exitCode
       \/ /\ Uncaught("RenderError")
          /\ UNCHANGED doc
    /\ UNCHANGED <<config, report, localtz>>
    /\ UNCHANGED <<helperVars, clearVars>>

\* stdout_b.write(doc.encode('utf-8'))
Emit ==
    /\ pc = "emit"
    /\ events' = Append(events, "stdout")
    /\ pc' = "email_body"
    /\ UNCHANGED <<config, report, localtz, doc, exitCode>>
    /\ UNCHANGED <<helperVars, clearVars>>

\* email_body = {... config['email'][...] ...}; email_headers = {... config['postmarkapp_token']}
EmailBody ==
    /\ pc = "email_body"
    /\ IF "email" \notin DOMAIN config \/ "postmarkapp_token" \notin DOMAIN config
       THEN Uncaught("KeyError")
       ELSE /\ pc' = "post"
            /\ UNCHANGED <<events, exitCode>>
    /\ UNCHANGED <<config, report, localtz, doc>>
    /\ UNCHANGED <<helperVars, clearVars>>

\* if doc.strip() != '': response = requests.post(...); ...; return 0
Post ==
    /\ pc = "post"
    /\ IF Strip(doc) # <<>>
       THEN \E code \in PostStatuses :
                events' = IF code # 200
                          THEN events \o <<"email_post", "warning">>
                          ELSE Append(events, "email_post")
       ELSE UNCHANGED events
    /\ Return(0)
    /\ UNCHANGED <<config, report, localtz, doc>>
    /\ UNCHANGED <<helperVars, clearVars>>

----------------------------------------------------------------------------
(* The bulk deletion: clear_dataset.py *)

PlaceIds == 1..NumPlaces

\* the statuses the data service may answer a delete with
DeleteStatuses == {204, 404, 500}

\* the callback without its early return: step advances on every response
place_done_no_return(s, status_code) ==
    [step |-> s + 1, error |-> status_code # 204]

\* place_done_callback(place, place_response): the new step, and whether it printed an error
place_done_callback(s, status_code) ==
    IF status_code # 204 THEN [step |-> s, error |-> TRUE]
    ELSE [step |-> s + 1, error |-> FALSE]

ClearInit ==
    /\ step = 0
    /\ status = [p \in PlaceIds |-> 0]
    /\ errors = 0
    /\ finished = FALSE
    /\ places = <<>> /\ heap = Corpus /\ helper = NoHelper /\ calls = <<>> /\ raised = ""
    /\ pc = "idle" /\ config = <<>> /\ report = <<>> /\ events = <<>>
    /\ localtz = "" /\ doc = <<>> /\ exitCode = -1

\* tool.delete_places: the response for place p arrives and the callback runs
PlaceDone ==
    \E p \in PlaceIds, code \in DeleteStatuses :
        /\ ~finished
        /\ status[p] = 0
        /\ LET r == place_done_callback(step, code)
           IN  /\ step' = r.step
               /\ errors' = IF r.error THEN errors + 1 ELSE errors
        /\ status' = [status EXCEPT ![p] = code]
        /\ UNCHANGED <<finished, helperVars, driverVars>>

\* print('\nDone!')
Done ==
    /\ ~finished
    /\ \A p \in PlaceIds : status[p] # 0
    /\ finished' = TRUE
    /\ UNCHANGED <<step, status, errors, helperVars, driverVars>>

----------------------------------------------------------------------------
(* Specifications: one per program; the other programs' state stays put *)

HelperNext ==
    \/ WithPlace
    \/ CreatedBetween
    \/ CreatedWithinDays
    \/ AnnotateWithPlaces
    \/ BlockReturns

DriverNext ==
    \/ AssertTemplate
    \/ Fetch
    \/ Compile
    \/ Timezone
    \/ ConvertTimes
    \/ Render
    \/ Emit
    \/ EmailBody
    \/ Post

ClearNext ==
    \/ PlaceDone
    \/ Done

HelperSpec == HelperInit /\ [][HelperNext]_vars
DriverSpec == DriverInit /\ [][DriverNext]_vars
ClearSpec == ClearInit /\ [][ClearNext]_vars

----------------------------------------------------------------------------
(* Properties of the helpers, under HelperSpec *)

\* the context the helper works on: the explicit argument, else the current scope
Effective == IF helper.context = UNDEFINED THEN helper.this ELSE helper.context

\* created_datetime of the submission at a: the top level first, then properties
CreatedOf(a) ==
    IF "created_datetime" \in DOMAIN Corpus[a] THEN Corpus[a].created_datetime
    ELSE Corpus[a].properties.created_datetime

\* the entries of list l created in [begin, end), in l's order
Between(l, begin, end) ==
    SelectSeq(l, LAMBDA a : StrLe(begin, CreatedOf(a)) /\ StrLt(CreatedOf(a), end))

\* the place the URL of the submission at a refers to, serialized, or None
ResolvedPlace(id) == IF id \in DOMAIN places THEN Dict(Serialize(places[id])) ELSE NoneV

\* the identifier the URL u was made from
UrlIdOf(u) == CHOOSE id \in {1, 2, 12} : PlaceUrl(id) = u

\* C1: when at least one entry of the context has begin <= created_datetime < end,
\* created_between calls fn exactly once, with exactly those entries in their
\* original order, and does not call inverse; created_datetime is read at the top
\* level and only then under properties; an entry created at begin is passed on
\* and one created at end is not.
C1_FnGetsTheWindow ==
    (helper.name = "created_between" /\ Effective.t = "list"
        /\ Between(Effective.v, helper.begin, helper.end) # <<>>)
    => /\ raised = ""
       /\ calls = <<Call("fn", List(Between(Effective.v, helper.begin, helper.end)))>>
       /\ \A i \in 1..Len(Effective.v) :
            LET a == Effective.v[i]
                passed == \E j \in 1..Len(calls[1].arg.v) : calls[1].arg.v[j] = a
            IN  /\ (CreatedOf(a) = helper.begin /\ StrLt(helper.begin, helper.end)) => passed
                /\ CreatedOf(a) = helper.end => ~passed

\* C1 witness: a two-entry context whose entry created at begin is passed to fn and
\* whose entry created at end is dropped.
C1_Witness ==
    /\ helper.name = "created_between"
    /\ Effective.t = "list" /\ Len(Effective.v) = 2
    /\ \E i, j \in 1..2 : /\ CreatedOf(Effective.v[i]) = helper.begin
                          /\ CreatedOf(Effective.v[j]) = helper.end
    /\ Len(calls) = 1 /\ calls[1].callable = "fn" /\ Len(calls[1].arg.v) = 1

\* no entry of the filtered context lies in [begin, end)
NothingInWindow ==
    /\ helper.name = "created_between"
    /\ Effective.t = "list"
    /\ Between(Effective.v, helper.begin, helper.end) = <<>>

\* C2 as stated: when the context being filtered (the explicit context argument when
\* supplied, otherwise the current scope) is empty or has no entry in [begin, end),
\* created_between calls inverse exactly once with that context and never fn.
C2_InverseGetsContext ==
    NothingInWindow => (raised = "" /\ calls = <<Call("inverse", Effective)>>)

\* C2 amended: in that case created_between calls inverse exactly once with the
\* current scope this, which is the filtered context only when no explicit context
\* argument was supplied, and never calls fn.
C2_InverseGetsThis ==
    NothingInWindow => (raised = "" /\ calls = <<Call("inverse", helper.this)>>)

\* C2 witness: an explicit, non-empty context with nothing in the window, filtered
\* under a different current scope.
C2_Witness ==
    /\ NothingInWindow
    /\ helper.context # UNDEFINED /\ helper.context # helper.this
    /\ Len(helper.context.v) > 0
    /\ calls = <<Call("inverse", helper.this)>>

\* C3: with_place on a place URL calls fn exactly once and raises nothing: with the
\* serialized place when the URL's trailing identifier is in the record store, with
\* None when it is not.
C3_WithPlaceResolves ==
    helper.name = "with_place"
    => /\ raised = ""
       /\ calls = <<Call("fn", ResolvedPlace(UrlIdOf(helper.url)))>>

\* C3 witness: with_place on the URL of place 12, which the store lacks, has called
\* fn with None.
C3_Witness ==
    /\ helper.name = "with_place"
    /\ helper.url = PlaceUrl(12) /\ 12 \notin DOMAIN places /\ 1 \in DOMAIN places
    /\ calls = <<Call("fn", NoneV)>>

\* C4 as stated: annotate_with_places over a list completes without raising, None
\* entries included: fn gets a list with None where the context has None and, at
\* every other position, a copy of the submission whose place is the resolved place.
C4_NoneEntriesPassThrough ==
    (helper.name = "annotate_with_places" /\ Effective.t = "list")
    => /\ raised = ""
       /\ Len(calls) = 1 /\ calls[1].callable = "fn"
       /\ Len(calls[1].arg.v) = Len(Effective.v)
       /\ \A i \in 1..Len(Effective.v) :
            LET a == Effective.v[i]
                b == calls[1].arg.v[i]
            IN  IF a = 0 THEN b = 0
                ELSE /\ b # 0
                     /\ heap[b] = [Corpus[a] EXCEPT
                                     !.place = ResolvedPlace(UrlIdOf(Corpus[a].place.v))]

\* a helper call changes neither the record store nor the submissions it was
\* given; after annotate_with_places returns, every submission of the context still
\* carries its place URL, and the list passed to fn has as many entries, each another
\* dict than the submission, carrying the resolved place.
HelperFrame ==
    /\ places' = places
    /\ \A a \in Addrs : heap'[a] = heap[a] /\ heap'[a] = Corpus[a]
    /\ (helper'.name = "annotate_with_places" /\ raised' = "")
       => LET ctx == IF helper'.context = UNDEFINED THEN helper'.this ELSE helper'.context
              out == calls'[1].arg.v
          IN  /\ Len(out) = Len(ctx.v)
              /\ \A i \in 1..Len(ctx.v) :
                    /\ heap'[ctx.v[i]].place = Str(PlaceUrl(UrlIdOf(Corpus[ctx.v[i]].place.v)))
                    /\ out[i] # ctx.v[i]
                    /\ heap'[out[i]].place =
                           ResolvedPlace(UrlIdOf(Corpus[ctx.v[i]].place.v))

\* C5: every step of the helpers leaves the record store and the submissions as they
\* were, and what annotate_with_places passes to fn are copies carrying the places.
C5_HelpersMutateNothing == [][HelperFrame]_vars

\* C5 witness: annotate_with_places has returned a two-entry list whose first entry
\* carries a resolved place object while the submission still carries its URL.
C5_Witness ==
    /\ helper.name = "annotate_with_places" /\ raised = ""
    /\ Len(calls) = 1 /\ Len(calls[1].arg.v) = 2
    /\ heap[calls[1].arg.v[1]].place.t = "dict"
    /\ heap[Effective.v[1]].place.t = "str"

\* C9: created_within_days(daysago, context) run on the day today calls the same
\* callable with the same argument as created_between(begin, end, context) with
\* end = today and begin = today - daysago days as ISO dates; for negative daysago
\* that is inverse.
C9_WithinDaysIsBetween ==
    helper.name = "created_within_days"
    => LET begin == IsoFormat(FromOrdinal(ToOrdinal(helper.today) - helper.daysago))
           end == IsoFormat(helper.today)
           r == created_between(Corpus, helper.this, begin, end, helper.context)
       IN  /\ calls = r.calls
           /\ raised = r.raised
           /\ Len(begin) = 10 /\ Len(end) = 10
           /\ helper.daysago < 0 => calls = <<Call("inverse", helper.this)>>

\* C9 witness: created_within_days 7 on 2024-01-10 has passed fn the entry created on
\* 2024-01-03 and dropped the one created on 2024-01-10.
C9_Witness ==
    /\ helper.name = "created_within_days"
    /\ helper.daysago = 7 /\ helper.today = Date(2024, 1, 10)
    /\ helper.context = List(<<1, 3>>)
    /\ calls = <<Call("fn", List(<<1>>))>>


----------------------------------------------------------------------------
(* Properties of the report driver, under DriverSpec *)

Happened(e) == \E i \in 1..Len(events) : events[i] = e

\* a timezone is set: the key is there and its value is not empty
Sets(d) == "timezone" \in DOMAIN d /\ d["timezone"] # ""

\* the run got as far as resolving a timezone name that pytz does not know
AbortedOnTimezone ==
    /\ pc = "done"
    /\ Happened("compile")
    /\ \/ Sets(config) /\ config["timezone"] \notin KnownZones
       \/ ~Sets(config) /\ Sets(report) /\ report["timezone"] \notin KnownZones

\* C6 as stated: on an unrecognized timezone name the driver prints a diagnostic and
\* ends with exit code 1 with no template compilation, render, stdout emit or email
\* send: only the template-path check and the fetch came before.
C6_AbortBeforeCompile ==
    (pc = "done" /\ Happened("diagnostic"))
    => (exitCode = 1 /\ events = <<"fetch", "diagnostic">>)

\* C6 amended: on an unrecognized timezone name the driver prints a diagnostic and
\* ends with exit code 1 with no time conversion, render, stdout emit or email send;
\* the template has been loaded and compiled by then, after the template-path check
\* and the fetch.
C6_AbortBeforeRender ==
    /\ AbortedOnTimezone => (exitCode = 1 /\ events = <<"fetch", "compile", "diagnostic">>)
    /\ Happened("diagnostic") => AbortedOnTimezone

\* C6 witness: the run has ended on the unknown timezone name of the report config.
C6_Witness ==
    /\ AbortedOnTimezone
    /\ ~Sets(config) /\ Sets(report)
    /\ exitCode = 1 /\ Happened("diagnostic")

\* C7 as stated: the timezone handed to convert_times is the report config's when it
\* sets one, else the run config's when it sets one, else UTC.
C7_ReportTimezoneFirst ==
    Happened("convert_times")
    => localtz = IF Sets(report) THEN report["timezone"]
                 ELSE IF Sets(config) THEN config["timezone"]
                 ELSE "UTC"

\* C7 amended: the timezone handed to convert_times is the run config's when it sets
\* a non-empty one, else the report config's when it sets a non-empty one, else UTC;
\* when both set different timezones the run-level value is the one used.
C7_RunTimezoneFirst ==
    Happened("convert_times")
    => localtz = IF Sets(config) THEN config["timezone"]
                 ELSE IF Sets(report) THEN report["timezone"]
                 ELSE "UTC"

\* C7 witness: both configs set a timezone, the two differ, and the times were
\* converted to the run config's.
C7_Witness ==
    /\ Happened("convert_times")
    /\ Sets(config) /\ Sets(report) /\ config["timezone"] # report["timezone"]
    /\ localtz = config["timezone"]

\* C8 as stated: once the document is on stdout the driver ends with exit code 0,
\* whether the run config has an email block or not, whether the document is blank
\* or not and whatever the delivery service answers; an email is posted exactly when
\* there is an email block and the document is not blank.
C8_EmitAlwaysSucceeds ==
    (pc = "done" /\ Happened("stdout"))
    => /\ exitCode = 0
       /\ Happened("email_post") <=> ("email" \in DOMAIN config /\ Strip(doc) # <<>>)

----------------------------------------------------------------------------
(* Properties of the bulk deletion, under ClearSpec *)

Deleted == {p \in PlaceIds : status[p] = 204}

\* a callback has run: step is still the number of 204 responses, it went up by one
\* on a 204 and stayed on any other status, which printed an error; while a response
\* is outstanding the run has not finished
StepFollowsResponses ==
    /\ step' >= step
    /\ step' = Cardinality({p \in PlaceIds : status'[p] = 204})
    /\ \A p \in PlaceIds :
         (status[p] = 0 /\ status'[p] # 0)
         => /\ step' = step + (IF status'[p] = 204 THEN 1 ELSE 0)
            /\ errors' = errors + (IF status'[p] = 204 THEN 0 ELSE 1)
    /\ finished' => \A p \in PlaceIds : status'[p] # 0

\* C10: step starts at 0, never decreases, goes up by exactly 1 on each callback with
\* status 204 and stays on any other status, in any arrival order; failures stop
\* nothing, so after all callbacks step is the number of 204 responses.
C10_StepCounts204 == (step = 0) /\ [][StepFollowsResponses]_vars

\* C10 witness: the deletion has finished after a failure on the first place and
\* successes on later ones, and step is below the number of places.
C10_Witness ==
    /\ finished
    /\ status[1] = 500 /\ status[2] = 204 /\ status[NumPlaces] = 204
    /\ step = Cardinality(Deleted) /\ step < NumPlaces /\ errors > 0

=============================================================================
